---- MODULE Spec2Model ----
(***************************************************************************)
(* Sale transaction and inventory consistency of cpos-api.                 *)
(*                                                                         *)
(* State: the rows of the relational store that the sale, sale-status,    *)
(* inventory and stock routes read and write (products, inventory, sales   *)
(* with their sale items, customers, inventory logs), the in-flight stock  *)
(* handlers, and the last HTTP response.  Money is counted in whole        *)
(* currency units; the catalog prices and tax rates are chosen so that     *)
(* every tax amount is a whole number.                                     *)
(***************************************************************************)
EXTENDS Integers, Sequences, FiniteSets, TLC

(***************************************************************************)
(* Bounds of the model.                                                    *)
(***************************************************************************)
\* at most this many sale rows are created
MaxSales == 1
\* a customer's totalPurchases is not driven above this
MaxPurchases == 64
\* at most this many inventory log rows are written
MaxLog == 2
\* stock handlers stop adding when product.quantity would exceed this
MaxQuantity == 4

(***************************************************************************)
(* Identifiers and request inputs.                                         *)
(***************************************************************************)
NULL == "NULL"

\* products of the catalog, and an id no product has
Products == {"p1", "p2"}
UnknownProduct == "p9"
ProductIds == Products \cup {UnknownProduct}

\* customers on file, and an id no customer has
Customers == {"c1"}
UnknownCustomer == "c9"
CustomerIds == Customers \cup {UnknownCustomer}

\* inventory locations: the upsert's default and one other
DefaultLocation == "default"
Locations == {DefaultLocation, "aux"}

\* rows of sale_statuses (seed data) and an id that is no row
SaleStatusIds == {"ss1", "ss2", "ss3", "ss4"}
UnknownStatus == "ss9"

StatusName(id) ==
    CASE id = "ss1" -> "pending"
      [] id = "ss2" -> "completed"
      [] id = "ss3" -> "cancelled"
      [] id = "ss4" -> "refunded"
      [] OTHER -> NULL

StatusId(name) == CHOOSE id \in SaleStatusIds : StatusName(id) = name

\* a request line of POST /sales
PricedLine(p, q, unitPrice, taxRate, discount) ==
    [productId |-> p, quantity |-> q, unitPrice |-> unitPrice,
     taxRate |-> taxRate, discount |-> discount]

\* a request line that carries the catalog's price and tax rate, no discount
Line(p, q) == PricedLine(p, q, 10, IF p = "p2" THEN 10 ELSE 0, 0)

\* the item lists the model submits
Carts ==
    { <<Line("p1", 1)>>, <<Line("p1", 2)>>, <<Line("p2", 1)>>,
      <<Line("p1", 1), Line("p2", 2)>>, <<Line("p1", 1), Line("p1", 1)>>,
      <<Line(UnknownProduct, 1)>>, <<Line("p1", 1), Line(UnknownProduct, 1)>> }

\* discountAmount of a sale request: none, larger than any total
Discounts == {0, 100}

\* the write statement of the sale transaction at which the backend fails
\* (0: none; 1: sale.create; 1 + k: the k-th inventory.updateMany;
\*  the one after the last line: customer.update)
Faults == 0 .. 4

VARIABLES
    products,      \* product rows: price, taxRate, isActive, quantity
    inventory,     \* inventory rows: <<productId, location>> -> quantity
    sales,         \* sale rows with their sale items, in creation order
    customers,     \* customer rows: totalPurchases, loyaltyPoints
    inventoryLog,  \* inventory log rows, in creation order
    handlers,      \* PUT /:id/stock requests between their awaits
    last,          \* the response of the last request
    inventory0,    \* the inventory rows at the start of the behaviour
    requests       \* PUT /sales/:id/status requests, from arrival to response

vars ==
    <<products, inventory, sales, customers, inventoryLog, handlers, last,
      inventory0, requests>>


(***************************************************************************)
(* Responses.                                                              *)
(***************************************************************************)
\* op: the route; code: the HTTP status; step: the statement that failed
\* ("" when none did); sale, from, to: the sale id and the names of the old
\* and new sale status of a status update (0 and "" elsewhere)
Resp(op, code, step) ==
    [op |-> op, code |-> code, step |-> step, sale |-> 0, from |-> "", to |-> ""]

StatusResp(code, step, id, from, to) ==
    [op |-> "updateSaleStatus", code |-> code, step |-> step,
     sale |-> id, from |-> from, to |-> to]

\* the rows a unit of work reads and writes
Db == [inventory |-> inventory, sales |-> sales, customers |-> customers]

Ok(db) == [ok |-> TRUE, step |-> "", db |-> db]
Failed(step, db) == [ok |-> FALSE, step |-> step, db |-> db]

(***************************************************************************)
(* Constraints of the schema.                                              *)
(***************************************************************************)
\* inventory.quantity CHECK (quantity >= 0), without the constraint
CheckQuantity_Unchecked(q) == TRUE

\* inventory.quantity CHECK (quantity >= 0)
CheckQuantity(q) == q >= 0

InventoryOk(inv) == \A key \in DOMAIN inv : CheckQuantity(inv[key])

\* sales.total_amount CHECK (total_amount >= 0), without the constraint
CheckTotalAmount_Unchecked(t) == TRUE

\* sales.total_amount CHECK (total_amount >= 0)
CheckTotalAmount(t) == t >= 0

\* sale_items.quantity CHECK (quantity > 0)
CheckItemQuantity(q) == q > 0

\* the foreign keys and checks of a sale row and its sale items
SaleInsertOk(db, sale) ==
    /\ CheckTotalAmount(sale.totalAmount)
    /\ sale.customerId = NULL \/ sale.customerId \in DOMAIN db.customers
    /\ sale.saleStatusId = NULL \/ sale.saleStatusId \in SaleStatusIds
    /\ \A k \in 1 .. Len(sale.saleItems) :
          /\ CheckItemQuantity(sale.saleItems[k].quantity)
          /\ sale.saleItems[k].productId \in Products

(***************************************************************************)
(* POST /sales: create sale.                                               *)
(***************************************************************************)
\* the lookup loop returns 400 at the first line whose product is not found
MissingProduct(prods, items) ==
    \E k \in 1 .. Len(items) : items[k].productId \notin DOMAIN prods

ItemTotal(prods, item) == prods[item.productId].price * item.quantity

ItemTax(prods, item) ==
    (ItemTotal(prods, item) * prods[item.productId].taxRate) \div 100

RECURSIVE Subtotal(_, _)
Subtotal(prods, items) ==
    IF items = <<>> THEN 0
    ELSE ItemTotal(prods, Head(items)) + Subtotal(prods, Tail(items))

RECURSIVE TaxAmount(_, _)
TaxAmount(prods, items) ==
    IF items = <<>> THEN 0
    ELSE ItemTax(prods, Head(items)) + TaxAmount(prods, Tail(items))

TotalAmount(prods, items, discountAmount) ==
    Subtotal(prods, items) + TaxAmount(prods, items) - discountAmount

\* one point per unit spent
LoyaltyPoints_PerUnit(totalAmount) == totalAmount

\* Math.floor(totalAmount / 10)
LoyaltyPoints(totalAmount) == totalAmount \div 10

\* the sale row and its nested sale items
SaleData(customerId, items, saleStatusId, discountAmount, totalAmount, taxAmount) ==
    [customerId |-> customerId,
     totalAmount |-> totalAmount,
     taxAmount |-> taxAmount,
     discountAmount |-> discountAmount,
     saleStatusId |-> saleStatusId,
     saleItems |-> [k \in 1 .. Len(items) |->
                      [productId |-> items[k].productId,
                       quantity |-> items[k].quantity,
                       unitPrice |-> items[k].unitPrice,
                       discount |-> items[k].discount,
                       taxAmount |-> (items[k].unitPrice * items[k].quantity
                                        * items[k].taxRate) \div 100,
                       totalPrice |-> items[k].unitPrice * items[k].quantity
                                        - items[k].discount]]]

\* prisma.sale.create
TxSaleCreate(db, sale, fault) ==
    IF fault = 1 \/ ~SaleInsertOk(db, sale)
    THEN Failed("sale.create", db)
    ELSE Ok([db EXCEPT !.sales = Append(@, sale)])

\* inventory.updateMany({where: {productId}, data: {quantity: {decrement}}})
DecrementWhereProduct(inv, productId, quantity) ==
    [key \in DOMAIN inv |->
        IF key[1] = productId THEN inv[key] - quantity ELSE inv[key]]

\* the loop over the lines, from line k on
RECURSIVE TxUpdateInventory(_, _, _, _)
TxUpdateInventory(db, items, k, fault) ==
    IF k > Len(items) THEN Ok(db)
    ELSE LET upd == DecrementWhereProduct(db.inventory, items[k].productId,
                                          items[k].quantity)
         IN  IF fault = 1 + k \/ ~InventoryOk(upd)
             THEN Failed("inventory.updateMany", db)
             ELSE TxUpdateInventory([db EXCEPT !.inventory = upd], items, k + 1, fault)

\* if (customerId) prisma.customer.update
TxCustomerUpdate(db, customerId, totalAmount, nLines, fault) ==
    IF customerId = NULL THEN Ok(db)
    ELSE IF fault = nLines + 2 \/ customerId \notin DOMAIN db.customers
    THEN Failed("customer.update", db)
    ELSE Ok([db EXCEPT !.customers[customerId] =
                [@ EXCEPT !.totalPurchases = @ + totalAmount,
                          !.loyaltyPoints = @ + LoyaltyPoints(totalAmount)]])

\* the callback of prisma.$transaction: the writes made up to the statement
\* that throws, or all of them
CreateSaleTx(db, sale, items, fault) ==
    LET a == TxSaleCreate(db, sale, fault)
        b == IF a.ok THEN TxUpdateInventory(a.db, items, 1, fault) ELSE a
        c == IF b.ok
             THEN TxCustomerUpdate(b.db, sale.customerId, sale.totalAmount,
                                   Len(items), fault)
             ELSE b
    IN  c

\* a unit of work that keeps the writes made before the statement that threw
Transaction_NoRollback(before, tx) == tx.db

\* prisma.$transaction: commit when the callback returns, roll back when it throws
Transaction(before, tx) == IF tx.ok THEN tx.db ELSE before

\* the handler, in a store that is to hold at most max sales
DoCreateSaleWithin(max, customerId, items, saleStatusId, discountAmount, fault) ==
    /\ Len(sales) < max
    /\ IF MissingProduct(products, items)
       THEN /\ last' = Resp("createSale", 400, "product.findUnique")
            /\ UNCHANGED <<inventory, sales, customers>>
       ELSE LET taxAmount == TaxAmount(products, items)
                totalAmount == TotalAmount(products, items, discountAmount)
                sale == SaleData(customerId, items, saleStatusId, discountAmount,
                                 totalAmount, taxAmount)
                tx == CreateSaleTx(Db, sale, items, fault)
                after == Transaction(Db, tx)
            IN  /\ \A c \in DOMAIN after.customers :
                      after.customers[c].totalPurchases <= MaxPurchases
                /\ inventory' = after.inventory
                /\ sales' = after.sales
                /\ customers' = after.customers
                /\ last' = Resp("createSale", IF tx.ok THEN 201 ELSE 500, tx.step)
    /\ UNCHANGED <<products, inventoryLog, handlers>>

DoCreateSale(customerId, items, saleStatusId, discountAmount, fault) ==
    DoCreateSaleWithin(MaxSales, customerId, items, saleStatusId, discountAmount, fault)

(***************************************************************************)
(* PUT /products/:id: update of the catalog fields of a product.           *)
(***************************************************************************)
DoUpdateProduct(id, price, taxRate) ==
    /\ IF id \in DOMAIN products
       THEN /\ products' = [products EXCEPT ![id].price = price,
                                            ![id].taxRate = taxRate]
            /\ last' = Resp("updateProduct", 200, "")
       ELSE /\ last' = Resp("updateProduct", 404, "product.update")
            /\ UNCHANGED products
    /\ UNCHANGED <<inventory, sales, customers, inventoryLog, handlers>>

(***************************************************************************)
(* DELETE /products/:id: soft delete.                                      *)
(***************************************************************************)
DoDeleteProduct(id) ==
    /\ IF id \in DOMAIN products
       THEN /\ products' = [products EXCEPT ![id].isActive = FALSE]
            /\ last' = Resp("deleteProduct", 200, "")
       ELSE /\ last' = Resp("deleteProduct", 404, "product.update")
            /\ UNCHANGED products
    /\ UNCHANGED <<inventory, sales, customers, inventoryLog, handlers>>

(***************************************************************************)
(* PUT /sales/:id/status and the AFTER UPDATE triggers on sales.           *)
(***************************************************************************)
\* SELECT SUM(quantity) FROM sale_items WHERE sale_id = NEW.id AND product_id = p
RECURSIVE SumQuantity(_, _)
SumQuantity(saleItems, p) ==
    IF saleItems = <<>> THEN 0
    ELSE (IF Head(saleItems).productId = p THEN Head(saleItems).quantity ELSE 0)
         + SumQuantity(Tail(saleItems), p)

\* SELECT product_id FROM sale_items WHERE sale_id = NEW.id
SaleProducts(saleItems) == {saleItems[k].productId : k \in 1 .. Len(saleItems)}

\* the decrease applied whenever the new status is completed
DecreaseInventoryWhen_AnyOld(old, new) == new = "completed"

\* update_inventory_after_sale: "Decrease inventory when sale is completed"
DecreaseInventoryWhen(old, new) ==
    new = "completed" /\ (old = NULL \/ old # "completed")

\* the restore applied whenever the new status is cancelled
RestoreInventoryWhen_AnyOld(old, new) == new = "cancelled"

\* update_inventory_after_sale: "Restore inventory when sale is cancelled"
RestoreInventoryWhen(old, new) == new = "cancelled" /\ old = "completed"

\* UPDATE inventory SET quantity = quantity + sign * SUM(...) WHERE product_id IN (...)
ShiftWhereSold(inv, saleItems, sign) ==
    [key \in DOMAIN inv |->
        IF key[1] \in SaleProducts(saleItems)
        THEN inv[key] + sign * SumQuantity(saleItems, key[1])
        ELSE inv[key]]

\* trigger function update_inventory_after_sale
update_inventory_after_sale(db, oldRow, newRow) ==
    LET old == StatusName(oldRow.saleStatusId)
        new == StatusName(newRow.saleStatusId)
        dec == ShiftWhereSold(db.inventory, newRow.saleItems, -1)
        a == IF DecreaseInventoryWhen(old, new)
             THEN (IF InventoryOk(dec)
                   THEN Ok([db EXCEPT !.inventory = dec])
                   ELSE Failed("update_inventory_after_sale", db))
             ELSE Ok(db)
        inc == ShiftWhereSold(a.db.inventory, newRow.saleItems, 1)
    IN  IF a.ok /\ RestoreInventoryWhen(old, new)
        THEN Ok([a.db EXCEPT !.inventory = inc])
        ELSE a

\* the addition applied whenever the new status is completed
AddPurchasesWhen_AnyOld(old, new) == new = "completed"

\* update_customer_total_purchases: the condition of its first UPDATE
AddPurchasesWhen(old, new) ==
    new = "completed" /\ (old = NULL \/ old # "completed")

\* update_customer_total_purchases: the condition of its second UPDATE
SubtractPurchasesWhen(old, new) == new = "cancelled" /\ old = "completed"

\* GREATEST(a, b)
Greatest(a, b) == IF a >= b THEN a ELSE b

\* UPDATE customers SET total_purchases = <value> WHERE id = customer_id;
\* f gives the new value from the old one
SetPurchasesWhereId(custs, customerId, f) ==
    [c \in DOMAIN custs |->
        IF c = customerId
        THEN [custs[c] EXCEPT !.totalPurchases = f[@]]
        ELSE custs[c]]

\* trigger function update_customer_total_purchases
update_customer_total_purchases(db, oldRow, newRow) ==
    LET old == StatusName(oldRow.saleStatusId)
        new == StatusName(newRow.saleStatusId)
        Plus == [t \in Int |-> t + newRow.totalAmount]
        Minus == [t \in Int |-> Greatest(t - newRow.totalAmount, 0)]
        a == IF AddPurchasesWhen(old, new)
             THEN [db EXCEPT !.customers = SetPurchasesWhereId(@, newRow.customerId, Plus)]
             ELSE db
        b == IF SubtractPurchasesWhen(old, new)
             THEN [a EXCEPT !.customers = SetPurchasesWhereId(@, newRow.customerId, Minus)]
             ELSE a
    IN  Ok(b)

\* a status update that also rewrote the unit prices of the sale's items
StatusData_Repriced(oldRow, saleStatusId) ==
    [oldRow EXCEPT !.saleStatusId = saleStatusId,
                   !.saleItems = [k \in DOMAIN @ |-> [@[k] EXCEPT !.unitPrice = 0]]]

\* data: {paymentStatusId, saleStatusId}: the sale row after the update
StatusData(oldRow, saleStatusId) == [oldRow EXCEPT !.saleStatusId = saleStatusId]

\* UPDATE sales SET sale_status_id = ... WHERE id = ...: the row write, then the
\* AFTER UPDATE row triggers in name order; an error in any of them aborts
\* the statement
UpdateSaleStatement(db, id, saleStatusId) ==
    LET oldRow == db.sales[id]
        newRow == StatusData(oldRow, saleStatusId)
        a == Ok([db EXCEPT !.sales[id] = newRow])
        b == update_customer_total_purchases(a.db, oldRow, newRow)
        c == IF b.ok THEN update_inventory_after_sale(b.db, oldRow, newRow) ELSE b
    IN  IF c.ok THEN c ELSE Failed(c.step, db)

DoUpdateSaleStatus(id, saleStatusId) ==
    /\ IF id \notin 1 .. Len(sales)
       THEN /\ last' = StatusResp(404, "sale.update", id, "", "")
            /\ UNCHANGED <<inventory, sales, customers>>
       ELSE IF saleStatusId \notin SaleStatusIds
       THEN /\ last' = StatusResp(500, "sale.update", id,
                                  StatusName(sales[id].saleStatusId), "")
            /\ UNCHANGED <<inventory, sales, customers>>
       ELSE LET st == UpdateSaleStatement(Db, id, saleStatusId)
            IN  /\ \A c \in DOMAIN st.db.customers :
                      st.db.customers[c].totalPurchases <= MaxPurchases
                /\ inventory' = st.db.inventory
                /\ sales' = st.db.sales
                /\ customers' = st.db.customers
                /\ last' = StatusResp(IF st.ok THEN 200 ELSE 500, st.step, id,
                                      StatusName(sales[id].saleStatusId),
                                      StatusName(saleStatusId))
    /\ UNCHANGED <<products, inventoryLog, handlers>>

\* a status request that has not arrived
NoRequest == [pc |-> "none", id |-> 0, saleStatusId |-> NULL, seen |-> NULL, code |-> 0]

\* the request arrives: the handler takes id and saleStatusId from the
\* request; seen is the status the sale has at that moment
DoReceiveSaleStatus(h, id, saleStatusId) ==
    /\ requests[h].pc = "none"
    /\ id \in 1 .. Len(sales)
    /\ requests' = [requests EXCEPT ![h] =
                       [pc |-> "received", id |-> id, saleStatusId |-> saleStatusId,
                        seen |-> StatusName(sales[id].saleStatusId), code |-> 0]]
    /\ UNCHANGED <<products, inventory, sales, customers, inventoryLog, handlers, last>>

\* the handler's prisma.sale.update and its response
DoAnswerSaleStatus(h) ==
    /\ requests[h].pc = "received"
    /\ DoUpdateSaleStatus(requests[h].id, requests[h].saleStatusId)
    /\ requests' = [requests EXCEPT ![h].pc = "done", ![h].code = last'.code]

(***************************************************************************)
(* PUT /products/:id/inventory: upsert of one inventory row.               *)
(***************************************************************************)
\* location || 'default'
LocationOrDefault(location) == IF location = NULL THEN DefaultLocation ELSE location

\* prisma.inventory.upsert on the key (productId, location)
InventoryUpsert(inv, id, quantity, location) ==
    LET key == <<id, LocationOrDefault(location)>>
    IN  [k \in DOMAIN inv \cup {key} |-> IF k = key THEN quantity ELSE inv[k]]

DoUpdateInventory(id, quantity, location) ==
    /\ IF id \in DOMAIN products /\ CheckQuantity(quantity)
       THEN /\ inventory' = InventoryUpsert(inventory, id, quantity, location)
            /\ last' = Resp("updateInventory", 200, "")
       ELSE /\ last' = Resp("updateInventory", 500, "inventory.upsert")
            /\ UNCHANGED inventory
    /\ UNCHANGED <<products, sales, customers, inventoryLog, handlers>>

(***************************************************************************)
(* PUT /inventory/:id/stock: read the product, write product.quantity,     *)
(* write the inventory log.  The handler is suspended at each await, so    *)
(* each database call is a step of its own.                                *)
(***************************************************************************)
Handlers == {"h1", "h2"}

Operations == {"add", "subtract", "set"}
UnknownOperation == "multiply"

\* the quantity field of the request bodies the model submits
StockQuantities == {-1, 0, 2}

Idle == [pc |-> "idle", id |-> NULL, operation |-> NULL, quantity |-> 0, read |-> 0]

\* Math.max(0, a)
Max0(a) == IF a > 0 THEN a ELSE 0

\* the switch over the operation
NewQuantity(operation, old, quantity) ==
    CASE operation = "add" -> old + quantity
      [] operation = "subtract" -> Max0(old - quantity)
      [] operation = "set" -> quantity

\* !quantity || quantity < 0
InvalidQuantity(quantity) == quantity = 0 \/ quantity < 0

InFlight == {h \in Handlers : handlers[h].pc # "idle"}

\* validation and prisma.product.findUnique
DoAdjustStockBegin(h, id, quantity, operation) ==
    /\ handlers[h].pc = "idle"
    /\ Len(inventoryLog) + Cardinality(InFlight) < MaxLog
    /\ IF InvalidQuantity(quantity) \/ operation \notin Operations
       THEN /\ last' = Resp("adjustStock", 400, "")
            /\ UNCHANGED handlers
       ELSE IF id \notin DOMAIN products
       THEN /\ last' = Resp("adjustStock", 404, "product.findUnique")
            /\ UNCHANGED handlers
       ELSE /\ handlers' = [handlers EXCEPT ![h] =
                               [pc |-> "found", id |-> id, operation |-> operation,
                                quantity |-> quantity, read |-> products[id].quantity]]
            /\ UNCHANGED last
    /\ UNCHANGED <<products, inventory, sales, customers, inventoryLog>>

\* prisma.product.update({data: {quantity: newQuantity}}), or its failure
DoAdjustStockUpdate(h, fails) ==
    LET r == handlers[h]
        newQuantity == NewQuantity(r.operation, r.read, r.quantity)
    IN  /\ r.pc = "found"
        /\ newQuantity <= MaxQuantity
        /\ IF fails
           THEN /\ handlers' = [handlers EXCEPT ![h] = Idle]
                /\ last' = Resp("adjustStock", 500, "product.update")
                /\ UNCHANGED products
           ELSE /\ products' = [products EXCEPT ![r.id].quantity = newQuantity]
                /\ handlers' = [handlers EXCEPT ![h].pc = "updated"]
                /\ UNCHANGED last
        /\ UNCHANGED <<inventory, sales, customers, inventoryLog>>

\* the row of prisma.inventoryLog.create
LogEntry(r) ==
    [productId |-> r.id, operation |-> r.operation, quantity |-> r.quantity,
     previousQuantity |-> r.read,
     newQuantity |-> NewQuantity(r.operation, r.read, r.quantity)]

\* a log that keeps the latest row only
InventoryLogCreate_Latest(log, row) == <<row>>

\* prisma.inventoryLog.create: one new row, after the rows on file
InventoryLogCreate(log, row) == Append(log, row)

\* prisma.inventoryLog.create and the response, or the failure of the create
DoAdjustStockLog(h, fails) ==
    LET r == handlers[h]
    IN  /\ r.pc = "updated"
        /\ IF fails
           THEN /\ last' = Resp("adjustStock", 500, "inventoryLog.create")
                /\ UNCHANGED inventoryLog
           ELSE /\ inventoryLog' = InventoryLogCreate(inventoryLog, LogEntry(r))
                /\ last' = Resp("adjustStock", 200, "")
        /\ handlers' = [handlers EXCEPT ![h] = Idle]
        /\ UNCHANGED <<products, inventory, sales, customers>>

(***************************************************************************)
(* The customer routes: POST, PUT /:id and DELETE /:id.                    *)
(***************************************************************************)
\* country || 'US'
CountryOrDefault(country) == IF country = NULL THEN "US" ELSE country

\* the row of prisma.customer.create: the profile from the request, the
\* aggregates at the defaults of their columns
NewCustomer(country) ==
    [country |-> CountryOrDefault(country), totalPurchases |-> 0, loyaltyPoints |-> 0]

DoCreateCustomer(id, country) ==
    /\ id \notin DOMAIN customers
    /\ customers' = [c \in DOMAIN customers \cup {id} |->
                        IF c = id THEN NewCustomer(country) ELSE customers[c]]
    /\ last' = Resp("createCustomer", 201, "")
    /\ UNCHANGED <<products, inventory, sales, inventoryLog, handlers>>

\* an update that put the whole row back to that of a new customer
CustomerUpdate_Reset(custs, id, country) ==
    [custs EXCEPT ![id] = NewCustomer(country)]

\* prisma.customer.update: data holds the profile fields only
CustomerUpdate(custs, id, country) == [custs EXCEPT ![id].country = country]

DoUpdateCustomer(id, country) ==
    /\ IF id \in DOMAIN customers
       THEN /\ customers' = CustomerUpdate(customers, id, country)
            /\ last' = Resp("updateCustomer", 200, "")
       ELSE /\ last' = Resp("updateCustomer", 404, "customer.update")
            /\ UNCHANGED customers
    /\ UNCHANGED <<products, inventory, sales, inventoryLog, handlers>>

\* sales.customer_id REFERENCES customers(id): a sale refers to the customer
Referenced(id) == \E i \in 1 .. Len(sales) : sales[i].customerId = id

DoDeleteCustomer(id) ==
    /\ IF id \notin DOMAIN customers
       THEN /\ last' = Resp("deleteCustomer", 404, "customer.delete")
            /\ UNCHANGED customers
       ELSE IF Referenced(id)
       THEN /\ last' = Resp("deleteCustomer", 500, "customer.delete")
            /\ UNCHANGED customers
       ELSE /\ customers' = [c \in DOMAIN customers \ {id} |-> customers[c]]
            /\ last' = Resp("deleteCustomer", 200, "")
    /\ UNCHANGED <<products, inventory, sales, inventoryLog, handlers>>

(***************************************************************************)
(* The store after setup: the catalog and one customer on file, no         *)
(* inventory rows, no sales.                                               *)
(***************************************************************************)
Catalog ==
    [p \in Products |->
        [price |-> 10, taxRate |-> IF p = "p2" THEN 10 ELSE 0,
         isActive |-> TRUE, quantity |-> 0]]

NoRows == [k \in {} |-> 0]

Setup(inv) ==
    /\ products = Catalog
    /\ inventory = inv
    /\ inventory0 = inv
    /\ sales = <<>>
    /\ customers = [c \in Customers |-> NewCustomer(NULL)]
    /\ inventoryLog = <<>>
    /\ handlers = [h \in Handlers |-> Idle]
    /\ last = Resp("", 0, "")
    /\ requests = [h \in Handlers |-> NoRequest]

Init == Setup(NoRows)

(***************************************************************************)
(* Spec: the sale routes and the inventory upsert, one request at a time.  *)
(***************************************************************************)
\* the bodies of PUT /products/:id/inventory the model submits
UpsertRequests ==
    { [id |-> "p1", quantity |-> 3, location |-> NULL],
      [id |-> "p1", quantity |-> 1, location |-> NULL],
      [id |-> "p2", quantity |-> 3, location |-> NULL],
      [id |-> "p1", quantity |-> 1, location |-> "aux"],
      [id |-> "p1", quantity |-> -1, location |-> NULL],
      [id |-> UnknownProduct, quantity |-> 3, location |-> NULL] }

CreateSale ==
    \E customerId \in {NULL} \cup CustomerIds, items \in Carts,
       saleStatusId \in {NULL} \cup SaleStatusIds,
       discountAmount \in Discounts, fault \in Faults :
        /\ DoCreateSale(customerId, items, saleStatusId, discountAmount, fault)
        /\ UNCHANGED <<inventory0, requests>>

UpdateSaleStatus ==
    \E id \in 1 .. MaxSales + 1, saleStatusId \in SaleStatusIds \cup {UnknownStatus} :
        /\ DoUpdateSaleStatus(id, saleStatusId)
        /\ UNCHANGED <<inventory0, requests>>

UpdateInventory ==
    \E r \in UpsertRequests :
        /\ DoUpdateInventory(r.id, r.quantity, r.location)
        /\ UNCHANGED <<inventory0, requests>>

Next == CreateSale \/ UpdateSaleStatus \/ UpdateInventory

Spec == Init /\ [][Next]_vars

(***************************************************************************)
(* SpecStock: the stock handlers interleaved with each other and with the  *)
(* sale routes and the inventory upsert.                                   *)
(***************************************************************************)
StockCarts == { <<Line("p1", 2)>> }

StockUpsertRequests ==
    { [id |-> "p1", quantity |-> 3, location |-> NULL],
      [id |-> "p1", quantity |-> 1, location |-> NULL],
      [id |-> "p1", quantity |-> -1, location |-> NULL] }

StockCreateSale ==
    \E items \in StockCarts, saleStatusId \in {StatusId("completed")} :
        /\ DoCreateSale(NULL, items, saleStatusId, 0, 0)
        /\ UNCHANGED <<inventory0, requests>>

StockUpdateSaleStatus ==
    \E id \in 1 .. MaxSales, saleStatusId \in {StatusId("completed"), StatusId("cancelled")} :
        /\ DoUpdateSaleStatus(id, saleStatusId)
        /\ UNCHANGED <<inventory0, requests>>

StockUpdateInventory ==
    \E r \in StockUpsertRequests :
        /\ DoUpdateInventory(r.id, r.quantity, r.location)
        /\ UNCHANGED <<inventory0, requests>>

AdjustStockBegin ==
    \E h \in Handlers, id \in {"p1", UnknownProduct}, quantity \in StockQuantities,
       operation \in Operations \cup {UnknownOperation} :
        /\ DoAdjustStockBegin(h, id, quantity, operation)
        /\ UNCHANGED <<inventory0, requests>>

AdjustStockUpdate ==
    \E h \in Handlers, fails \in BOOLEAN :
        /\ DoAdjustStockUpdate(h, fails)
        /\ UNCHANGED <<inventory0, requests>>

AdjustStockLog ==
    \E h \in Handlers, fails \in BOOLEAN :
        /\ DoAdjustStockLog(h, fails)
        /\ UNCHANGED <<inventory0, requests>>

NextStock ==
    \/ StockCreateSale
    \/ StockUpdateSaleStatus
    \/ StockUpdateInventory
    \/ AdjustStockBegin
    \/ AdjustStockUpdate
    \/ AdjustStockLog

SpecStock == Init /\ [][NextStock]_vars

(***************************************************************************)
(* SpecRoundTrip: one sale created pending, completed, then cancelled, on  *)
(* a store whose default-location stock is any level from 0 to 3.          *)
(***************************************************************************)
DefaultKeys == {<<p, DefaultLocation>> : p \in Products}

RoundTripStocks == [DefaultKeys -> 0 .. 3]

InitRoundTrip == \E inv \in RoundTripStocks : Setup(inv)

RoundTripCreate ==
    /\ Len(sales) = 0
    /\ \E customerId \in {NULL} \cup Customers, items \in Carts,
          discountAmount \in Discounts :
           DoCreateSale(customerId, items, StatusId("pending"), discountAmount, 0)
    /\ UNCHANGED <<inventory0, requests>>

RoundTripComplete ==
    /\ Len(sales) = 1
    /\ StatusName(sales[1].saleStatusId) = "pending"
    /\ DoUpdateSaleStatus(1, StatusId("completed"))
    /\ UNCHANGED <<inventory0, requests>>

RoundTripCancel ==
    /\ Len(sales) = 1
    /\ StatusName(sales[1].saleStatusId) = "completed"
    /\ DoUpdateSaleStatus(1, StatusId("cancelled"))
    /\ UNCHANGED <<inventory0, requests>>

NextRoundTrip == RoundTripCreate \/ RoundTripComplete \/ RoundTripCancel

SpecRoundTrip == InitRoundTrip /\ [][NextRoundTrip]_vars

(***************************************************************************)
(* SpecRace: one sale created pending on a stocked store, and two status   *)
(* requests to completed for it that may both arrive before either is      *)
(* answered.                                                               *)
(***************************************************************************)
RaceCreate ==
    /\ Len(sales) = 0
    /\ \E customerId \in {NULL} \cup Customers, items \in Carts :
           DoCreateSale(customerId, items, StatusId("pending"), 0, 0)
    /\ UNCHANGED <<inventory0, requests>>

RaceReceive ==
    \E h \in Handlers :
        /\ DoReceiveSaleStatus(h, 1, StatusId("completed"))
        /\ UNCHANGED inventory0

RaceAnswer ==
    \E h \in Handlers :
        /\ DoAnswerSaleStatus(h)
        /\ UNCHANGED inventory0

NextRace == RaceCreate \/ RaceReceive \/ RaceAnswer

SpecRace == InitRoundTrip /\ [][NextRace]_vars

(***************************************************************************)
(* SpecMix: sales and stock requests for the same product, interleaved, on *)
(* a stocked store whose backend does not fail.                            *)
(***************************************************************************)
MixCreateSale ==
    \E items \in StockCarts :
        /\ DoCreateSale(NULL, items, StatusId("pending"), 0, 0)
        /\ UNCHANGED <<inventory0, requests>>

MixAdjustStockBegin ==
    \E h \in Handlers, operation \in Operations :
        /\ DoAdjustStockBegin(h, "p1", 2, operation)
        /\ UNCHANGED <<inventory0, requests>>

MixAdjustStockUpdate ==
    \E h \in Handlers :
        /\ DoAdjustStockUpdate(h, FALSE)
        /\ UNCHANGED <<inventory0, requests>>

MixAdjustStockLog ==
    \E h \in Handlers :
        /\ DoAdjustStockLog(h, FALSE)
        /\ UNCHANGED <<inventory0, requests>>

NextMix ==
    \/ MixCreateSale
    \/ MixAdjustStockBegin
    \/ MixAdjustStockUpdate
    \/ MixAdjustStockLog

SpecMix == InitRoundTrip /\ [][NextMix]_vars

(***************************************************************************)
(* SpecValidation: sale requests with empty item lists, quantities of 0    *)
(* and below, unknown and soft-deleted products, on a stocked store.       *)
(***************************************************************************)
ValidationCarts ==
    { <<>>, <<Line("p1", 0)>>, <<Line("p1", -1)>>, <<Line("p1", 1)>>,
      <<Line("p1", 1), Line("p2", 0)>>, <<Line("p2", 1)>>,
      <<Line(UnknownProduct, 1)>> }

ValidationDelete ==
    \E id \in ProductIds :
        /\ DoDeleteProduct(id)
        /\ UNCHANGED <<inventory0, requests>>

ValidationCreateSale ==
    \E customerId \in {NULL} \cup Customers, items \in ValidationCarts :
        /\ DoCreateSale(customerId, items, StatusId("pending"), 0, 0)
        /\ UNCHANGED <<inventory0, requests>>

NextValidation == ValidationDelete \/ ValidationCreateSale

SpecValidation == InitRoundTrip /\ [][NextValidation]_vars

(***************************************************************************)
(* SpecSnapshot: up to two sales whose lines carry their own unit prices,  *)
(* with status updates, catalog price changes, soft deletes and stock      *)
(* requests between and after them.                                        *)
(***************************************************************************)
\* at most this many sale rows are created in SpecSnapshot
MaxSnapshotSales == 2

\* every product holds 3 at the default location
Stocked == [key \in DefaultKeys |-> 3]

InitSnapshot == Setup(Stocked)

\* lines at the catalog's price, at twice that price, and with a tax rate
\* and a discount the catalog does not have
PricedCarts ==
    { <<Line("p1", 1)>>,
      <<PricedLine("p1", 1, 20, 0, 0)>>,
      <<PricedLine("p1", 2, 10, 10, 5), Line("p2", 1)>> }

SnapshotCreateSale ==
    \E items \in PricedCarts :
        /\ DoCreateSaleWithin(MaxSnapshotSales, NULL, items, StatusId("pending"), 0, 0)
        /\ UNCHANGED <<inventory0, requests>>

SnapshotUpdateSaleStatus ==
    \E id \in 1 .. MaxSnapshotSales,
       saleStatusId \in {StatusId("completed"), StatusId("cancelled")} :
        /\ DoUpdateSaleStatus(id, saleStatusId)
        /\ UNCHANGED <<inventory0, requests>>

SnapshotUpdateProduct ==
    \E price \in {10, 20} :
        /\ DoUpdateProduct("p1", price, 0)
        /\ UNCHANGED <<inventory0, requests>>

SnapshotDeleteProduct ==
    /\ DoDeleteProduct("p1")
    /\ UNCHANGED <<inventory0, requests>>

SnapshotAdjustStockBegin ==
    /\ DoAdjustStockBegin("h1", "p1", 2, "add")
    /\ UNCHANGED <<inventory0, requests>>

SnapshotAdjustStockUpdate ==
    /\ DoAdjustStockUpdate("h1", FALSE)
    /\ UNCHANGED <<inventory0, requests>>

SnapshotAdjustStockLog ==
    /\ DoAdjustStockLog("h1", FALSE)
    /\ UNCHANGED <<inventory0, requests>>

NextSnapshot ==
    \/ SnapshotCreateSale
    \/ SnapshotUpdateSaleStatus
    \/ SnapshotUpdateProduct
    \/ SnapshotDeleteProduct
    \/ SnapshotAdjustStockBegin
    \/ SnapshotAdjustStockUpdate
    \/ SnapshotAdjustStockLog

SpecSnapshot == InitSnapshot /\ [][NextSnapshot]_vars

(***************************************************************************)
(* SpecCrud: the customer routes and the product routes around one sale    *)
(* and its status updates.                                                 *)
(***************************************************************************)
\* the id the store gives to a customer created by POST /customers
NewCustomerIds == {"c2"}

CrudCustomerIds == Customers \cup NewCustomerIds \cup {UnknownCustomer}

CrudCreateSale ==
    \E customerId \in {NULL} \cup Customers \cup NewCustomerIds,
       items \in {<<Line("p1", 1)>>, <<Line("p2", 1)>>},
       saleStatusId \in {StatusId("pending"), StatusId("completed")} :
        /\ DoCreateSale(customerId, items, saleStatusId, 0, 0)
        /\ UNCHANGED <<inventory0, requests>>

CrudUpdateSaleStatus ==
    \E saleStatusId \in SaleStatusIds :
        /\ DoUpdateSaleStatus(1, saleStatusId)
        /\ UNCHANGED <<inventory0, requests>>

CrudCreateCustomer ==
    \E id \in NewCustomerIds, country \in {NULL, "PK"} :
        /\ DoCreateCustomer(id, country)
        /\ UNCHANGED <<inventory0, requests>>

CrudUpdateCustomer ==
    \E id \in CrudCustomerIds, country \in {"US", "PK"} :
        /\ DoUpdateCustomer(id, country)
        /\ UNCHANGED <<inventory0, requests>>

CrudDeleteCustomer ==
    \E id \in CrudCustomerIds :
        /\ DoDeleteCustomer(id)
        /\ UNCHANGED <<inventory0, requests>>

CrudUpdateProduct ==
    \E price \in {10, 20} :
        /\ DoUpdateProduct("p1", price, 0)
        /\ UNCHANGED <<inventory0, requests>>

CrudDeleteProduct ==
    /\ DoDeleteProduct("p1")
    /\ UNCHANGED <<inventory0, requests>>

NextCrud ==
    \/ CrudCreateSale
    \/ CrudUpdateSaleStatus
    \/ CrudCreateCustomer
    \/ CrudUpdateCustomer
    \/ CrudDeleteCustomer
    \/ CrudUpdateProduct
    \/ CrudDeleteProduct

SpecCrud == InitSnapshot /\ [][NextCrud]_vars

(***************************************************************************)
(* Properties.                                                             *)
(***************************************************************************)
\* the step is the response to a create-sale request
CreateSaleStep == last'.op = "createSale"

\* the step is a status update of a sale that answered 200
StatusStep == last'.op = "updateSaleStatus" /\ last'.code = 200

\* the sale a status step updated, as it was before the step
Updated == sales[last'.sale]

\* every product has a row at the default location
StockedEverywhere == DefaultKeys \subseteq DOMAIN inventory

\* C1: a create-sale request that does not answer 201 leaves the products,
\* inventory rows, sales with their items, customers and inventory logs as
\* they were before the request.
C1_Atomicity ==
    [][(CreateSaleStep /\ last'.code # 201)
         => UNCHANGED <<products, inventory, sales, customers, inventoryLog>>]_vars

\* C1 witness: a create-sale request failed at its last write, the customer
\* update, after the sale insert and the stock decrements of the transaction
\* had run against stocked products.
C1_Witness ==
    /\ last.op = "createSale"
    /\ last.code = 500
    /\ last.step = "customer.update"
    /\ StockedEverywhere

\* a line asks for more than the stock of its product at the default location
Oversells(items, inv) ==
    \E k \in 1 .. Len(items) :
        /\ <<items[k].productId, DefaultLocation>> \in DOMAIN inv
        /\ items[k].quantity > inv[<<items[k].productId, DefaultLocation>>]

\* C2: a create-sale request without discount, for products of the catalog,
\* with a line whose quantity exceeds the stock of its product answers with
\* the conflict error (409), creates no sale and leaves the inventory
\* unchanged.
C2_NoOversell ==
    [][\A customerId \in {NULL} \cup Customers, items \in Carts,
          saleStatusId \in SaleStatusIds :
           (/\ DoCreateSale(customerId, items, saleStatusId, 0, 0)
            /\ ~MissingProduct(products, items)
            /\ Oversells(items, inventory))
             => (last'.code = 409 /\ UNCHANGED <<inventory, sales>>)]_vars

\* C3: every inventory row and every product.quantity is at least 0.
C3_StockNeverNegative ==
    /\ \A key \in DOMAIN inventory : inventory[key] >= 0
    /\ \A p \in DOMAIN products : products[p].quantity >= 0

\* C3 witness: a sale was refused at the decrement of an inventory row, and
\* a logged manual subtract asked for more than the product had.
C3_Witness ==
    /\ last.op = "createSale" /\ last.code = 500
    /\ last.step = "inventory.updateMany"
    /\ inventory # NoRows
    /\ \E i \in 1 .. Len(inventoryLog) :
          /\ inventoryLog[i].operation = "subtract"
          /\ inventoryLog[i].previousQuantity < inventoryLog[i].quantity
          /\ inventoryLog[i].newQuantity = 0

\* the sale a create-sale step that answered 201 inserted
Created == sales'[Len(sales')]

\* C4: after a create-sale request that answers 201 on a store with stock
\* for every product, the default-location stock of each product sold is
\* lower by the quantity sold, and the inventory log has one new entry per
\* line, holding the stock before and after that line's decrement.
C4_Conservation ==
    [][(CreateSaleStep /\ last'.code = 201 /\ StockedEverywhere)
         => /\ \A p \in SaleProducts(Created.saleItems) :
                  <<p, DefaultLocation>> \in DOMAIN inventory
                    => inventory'[<<p, DefaultLocation>>]
                         = inventory[<<p, DefaultLocation>>]
                             - SumQuantity(Created.saleItems, p)
            /\ Len(inventoryLog') = Len(inventoryLog) + Len(Created.saleItems)
            /\ \A k \in 1 .. Len(Created.saleItems) :
                  LET e == inventoryLog'[Len(inventoryLog) + k]
                  IN  /\ e.productId = Created.saleItems[k].productId
                      /\ e.previousQuantity - e.newQuantity
                           = Created.saleItems[k].quantity]_vars

\* C5: a status update of a completed sale to completed changes no inventory
\* row and no customer's totalPurchases or loyaltyPoints.
C5_CompletedAgain ==
    [][(StatusStep /\ last'.from = "completed" /\ last'.to = "completed")
         => UNCHANGED <<inventory, customers>>]_vars

\* C5 witness: a completed sale of stocked products to a customer was
\* updated to completed again.
C5_Witness ==
    /\ last.op = "updateSaleStatus" /\ last.code = 200
    /\ last.from = "completed" /\ last.to = "completed"
    /\ sales[last.sale].customerId \in Customers
    /\ StockedEverywhere
    /\ \A key \in DefaultKeys : inventory[key] >= 2

\* C6: once a sale created pending was completed and then cancelled, every
\* inventory row of a product of the sale holds the quantity it held before
\* the sale was created.
C6_RoundTripRestoresStock ==
    (/\ Len(sales) = 1
     /\ StatusName(sales[1].saleStatusId) = "cancelled")
      => \A key \in DOMAIN inventory :
            key[1] \in SaleProducts(sales[1].saleItems)
              => inventory[key] = inventory0[key]

\* the customers after the aggregates of customer c moved by dp and dl,
\* neither going below 0
Moved(custs, c, dp, dl) ==
    [d \in DOMAIN custs |->
        IF d = c
        THEN [custs[d] EXCEPT !.totalPurchases = Max0(@ + dp),
                              !.loyaltyPoints = Max0(@ + dl)]
        ELSE custs[d]]

\* C7: a status update from pending, cancelled or refunded to completed, on
\* a store with stock for every product, lowers the stock of each product
\* sold by the quantity sold, and raises the customer's totalPurchases by
\* totalAmount and loyaltyPoints by floor(totalAmount / 10).
C7_EnteringCompleted ==
    [][(StatusStep /\ last'.from \in {"pending", "cancelled", "refunded"}
          /\ last'.to = "completed" /\ StockedEverywhere)
         => /\ inventory' = ShiftWhereSold(inventory, Updated.saleItems, -1)
            /\ customers' = Moved(customers, Updated.customerId,
                                  Updated.totalAmount,
                                  Updated.totalAmount \div 10)]_vars

\* C8: a status update from completed to cancelled, and one from completed
\* to refunded, raise the stock of each product sold by the quantity sold.
C8_LeavingCompletedStock ==
    [][(StatusStep /\ last'.from = "completed"
          /\ last'.to \in {"cancelled", "refunded"})
         => inventory' = ShiftWhereSold(inventory, Updated.saleItems, 1)]_vars

\* C9: a status update from completed to cancelled or refunded lowers the
\* customer's totalPurchases by totalAmount and loyaltyPoints by
\* floor(totalAmount / 10), neither below 0.
C9_LeavingCompletedCustomer ==
    [][(StatusStep /\ last'.from = "completed"
          /\ last'.to \in {"cancelled", "refunded"})
         => customers' = Moved(customers, Updated.customerId,
                               0 - Updated.totalAmount,
                               0 - (Updated.totalAmount \div 10))]_vars

\* C10: a status update that neither enters nor leaves completed changes
\* the sale's status and nothing else: no inventory row, no inventory log,
\* no customer, no other field of any sale.
C10_OtherTransitions ==
    [][(StatusStep /\ ((last'.from = "completed") <=> (last'.to = "completed")))
         => /\ UNCHANGED <<inventory, inventoryLog, customers>>
            /\ sales' = [sales EXCEPT ![last'.sale].saleStatusId = StatusId(last'.to)]]_vars

\* C10 witness: a pending sale of stocked products to a customer was
\* cancelled.
C10_Witness ==
    /\ last.op = "updateSaleStatus" /\ last.code = 200
    /\ last.from = "pending" /\ last.to = "cancelled"
    /\ sales[last.sale].customerId \in Customers
    /\ StockedEverywhere

\* 1 when a status request of the race was answered 200, else 0
RaceApplied == IF \E h \in Handlers : requests[h].code = 200 THEN 1 ELSE 0

\* C11: however the two status requests to completed for one pending sale
\* interleave, the stock of each product sold is lowered by the quantity
\* sold once, and the customer's totalPurchases is raised by totalAmount
\* once, on top of what the creation of the sale did; and they are not
\* changed at all while no request was answered 200.
C11_AppliedOnce ==
    Len(sales) = 1
      => /\ \A key \in DOMAIN inventory :
               inventory[key]
                 = inventory0[key]
                     - (1 + RaceApplied) * SumQuantity(sales[1].saleItems, key[1])
         /\ \A c \in DOMAIN customers :
               customers[c].totalPurchases
                 = IF c = sales[1].customerId
                   THEN (1 + RaceApplied) * sales[1].totalAmount
                   ELSE 0

\* C11 witness: both requests arrived while the sale, made to a customer,
\* was pending, and both were answered 200.
C11_Witness ==
    /\ Len(sales) = 1
    /\ sales[1].customerId \in Customers
    /\ \A h \in Handlers :
          /\ requests[h].pc = "done"
          /\ requests[h].seen = "pending"
          /\ requests[h].code = 200

\* handler h's product.update is applied in the step
StockWritten(h) == handlers[h].pc = "found" /\ handlers'[h].pc = "updated"

\* C12: the quantity a stock request writes is its operation applied to the
\* quantity the product has when the write is made, so that no write of
\* another request between its read and its write is lost.
C12_NoLostUpdate ==
    [][\A h \in Handlers :
          StockWritten(h)
            => products'[handlers[h].id].quantity
                 = NewQuantity(handlers[h].operation,
                               products[handlers[h].id].quantity,
                               handlers[h].quantity)]_vars

\* the orders in which n calls can be made one after the other
Orders(n) == {f \in [1 .. n -> 1 .. n] : \A i, j \in 1 .. n : f[i] = f[j] => i = j}

\* the quantity after the logged stock calls are made one after the other,
\* in the order f from its k-th call on, starting from quantity q
RECURSIVE InSequence(_, _, _, _)
InSequence(q, log, f, k) ==
    IF k > Len(log) THEN q
    ELSE InSequence(NewQuantity(log[f[k]].operation, q, log[f[k]].quantity),
                    log, f, k + 1)

\* the quantity of product p sold by the sales from the k-th on
RECURSIVE Sold(_, _, _)
Sold(ss, p, k) ==
    IF k > Len(ss) THEN 0
    ELSE SumQuantity(ss[k].saleItems, p) + Sold(ss, p, k + 1)

\* C13: once a sale of product p1 was created and every stock request for
\* p1 has been answered, the quantity of p1 is the one that the accepted
\* requests, made one after the other in some order, give from the
\* catalog's quantity, and every inventory row is lower than at the start
\* by what the sales created sold.
C13_Serializable ==
    (Len(sales) > 0 /\ InFlight = {})
      => /\ \E f \in Orders(Len(inventoryLog)) :
               products["p1"].quantity
                 = InSequence(Catalog["p1"].quantity, inventoryLog, f, 1)
         /\ \A key \in DOMAIN inventory :
               inventory[key] = inventory0[key] - Sold(sales, key[1], 1)

\* handler h, whose product.update was applied, answers in the step
StockLogged(h) == handlers[h].pc = "updated" /\ handlers'[h].pc = "idle"

\* C14: a stock request that answers 200 has added one entry to the
\* inventory log, for its product, whose previousQuantity is the quantity
\* the request read and whose newQuantity is the quantity the product has
\* when the request answers.
C14_AuditComplete ==
    [][\A h \in Handlers :
          (StockLogged(h) /\ last'.code = 200)
            => /\ Len(inventoryLog') = Len(inventoryLog) + 1
               /\ LET e == inventoryLog'[Len(inventoryLog')]
                  IN  /\ e.productId = handlers[h].id
                      /\ e.previousQuantity = handlers[h].read
                      /\ e.newQuantity = products'[handlers[h].id].quantity]_vars

\* the inventory rows that the step creates or whose quantity it changes
ChangedRows ==
    {key \in DOMAIN inventory' :
        key \notin DOMAIN inventory \/ inventory'[key] # inventory[key]}

\* C15: a step that creates an inventory row or changes its quantity adds
\* an inventory log entry for the row's product whose newQuantity is the
\* row's new quantity.
C15_Traceability ==
    [][\A key \in ChangedRows :
          \E i \in Len(inventoryLog) + 1 .. Len(inventoryLog') :
              /\ inventoryLog'[i].productId = key[1]
              /\ inventoryLog'[i].newQuantity = inventory'[key]]_vars

\* the stock decrements of the lines leave every inventory row at 0 or more
StockSuffices(items) == TxUpdateInventory(Db, items, 1, 0).ok

\* C16: a create-sale request for products of the catalog, with enough
\* stock and no backend failure, creates a sale whose totalAmount is
\* subtotal + taxAmount - discountAmount, or 0 when that is negative.
C16_SaleTotal ==
    [][\A customerId \in {NULL} \cup Customers, items \in Carts,
          saleStatusId \in SaleStatusIds, discountAmount \in Discounts :
           (/\ DoCreateSale(customerId, items, saleStatusId, discountAmount, 0)
            /\ ~MissingProduct(products, items)
            /\ StockSuffices(items))
             => /\ last'.code = 201
                /\ Created.totalAmount
                     = Max0(Subtotal(products, items) + TaxAmount(products, items)
                              - discountAmount)]_vars

\* a line refers to a product that is soft-deleted
InactiveProduct(prods, items) ==
    \E k \in 1 .. Len(items) :
        /\ items[k].productId \in DOMAIN prods
        /\ ~prods[items[k].productId].isActive

\* C17: a create-sale request with a line whose product does not exist or
\* is soft-deleted does not answer 201 and leaves inventory, sales and
\* customers unchanged.
C17_ProductsExistAndActive ==
    [][\A customerId \in {NULL} \cup Customers, items \in ValidationCarts :
          (/\ DoCreateSale(customerId, items, StatusId("pending"), 0, 0)
           /\ (MissingProduct(products, items) \/ InactiveProduct(products, items)))
            => /\ last'.code # 201
               /\ UNCHANGED <<inventory, sales, customers>>]_vars

\* the item list is empty or has a line whose quantity is 0 or less
InvalidItems(items) ==
    items = <<>> \/ \E k \in 1 .. Len(items) : items[k].quantity <= 0

\* C18: a create-sale request whose item list is empty or has a line with
\* a quantity of 0 or less is answered with the validation error (400) and
\* leaves sales, inventory, inventory log and customers unchanged.
C18_FailFast ==
    [][\A customerId \in {NULL} \cup Customers, items \in ValidationCarts :
          (/\ DoCreateSale(customerId, items, StatusId("pending"), 0, 0)
           /\ InvalidItems(items))
            => /\ last'.code = 400
               /\ UNCHANGED <<sales, inventory, inventoryLog, customers>>]_vars

\* C19: a stock request for a product of the catalog with operation add,
\* subtract or set and an amount of 0 or more is not refused, and the
\* quantity it writes is old + amount, max(0, old - amount) or amount, for
\* the quantity old it read.
C19_NewQuantity ==
    [][/\ \A h \in Handlers, quantity \in StockQuantities, operation \in Operations :
            (DoAdjustStockBegin(h, "p1", quantity, operation) /\ quantity >= 0)
              => handlers'[h].pc = "found"
       /\ \A h \in Handlers :
            StockWritten(h)
              => LET old == handlers[h].read
                     amount == handlers[h].quantity
                 IN  products'[handlers[h].id].quantity
                       = CASE handlers[h].operation = "add" -> old + amount
                           [] handlers[h].operation = "subtract" ->
                                IF old >= amount THEN old - amount ELSE 0
                           [] handlers[h].operation = "set" -> amount]_vars

\* handler h answers with an error in the step, after its read
StockFailed(h) ==
    /\ handlers[h].pc # "idle"
    /\ handlers'[h].pc = "idle"
    /\ last'.code # 200

\* the step is a stock request refused before its read
StockRefused ==
    /\ UNCHANGED handlers
    /\ last' # last
    /\ last'.op = "adjustStock"

\* C20: a stock request that answers with an error has not written the
\* product's quantity, and the step in which it answers writes neither a
\* product nor the inventory log.
C20_NoEffectOnError ==
    [][/\ \A h \in Handlers :
            StockFailed(h)
              => /\ handlers[h].pc # "updated"
                 /\ UNCHANGED <<products, inventoryLog>>
       /\ StockRefused => UNCHANGED <<products, inventoryLog>>]_vars

\* C21: every customer's loyaltyPoints and totalPurchases are at least 0.
C21_AggregatesNeverNegative ==
    \A c \in DOMAIN customers :
        customers[c].loyaltyPoints >= 0 /\ customers[c].totalPurchases >= 0

\* C21 witness: a completed sale to a customer was cancelled, which took
\* its totalAmount off the customer's totalPurchases.
C21_Witness ==
    /\ last.op = "updateSaleStatus" /\ last.code = 200
    /\ last.from = "completed" /\ last.to = "cancelled"
    /\ sales[last.sale].customerId \in Customers
    /\ sales[last.sale].totalAmount > 0

\* C22: a create-sale request that answers 201 raises the totalPurchases
\* of the sale's customer by totalAmount and the loyaltyPoints by
\* floor(totalAmount / 10) and changes no other customer; without a
\* customer it changes no customer.
C22_CustomerCredit ==
    [][(CreateSaleStep /\ last'.code = 201)
         => customers'
              = [c \in DOMAIN customers |->
                   IF c = Created.customerId
                   THEN [customers[c] EXCEPT
                           !.totalPurchases = @ + Created.totalAmount,
                           !.loyaltyPoints = @ + (Created.totalAmount \div 10)]
                   ELSE customers[c]]]_vars

\* C22 witness: a sale to a customer was created whose totalAmount is not
\* a multiple of 10.
C22_Witness ==
    /\ last.op = "createSale" /\ last.code = 201
    /\ sales[Len(sales)].customerId \in Customers
    /\ sales[Len(sales)].totalAmount % 10 # 0
    /\ customers[sales[Len(sales)].customerId].loyaltyPoints > 0

\* C23: no step changes the items of a sale that exists: their productId,
\* quantity, unitPrice, discount, taxAmount and totalPrice stay as they
\* were created.
C23_ItemsImmutable ==
    [][\A i \in 1 .. Len(sales) :
          /\ i <= Len(sales')
          /\ sales'[i].saleItems = sales[i].saleItems]_vars

\* C23 witness: the first of two sales, whose line carries a unit price
\* of 20, is completed; the catalog price of its product was set to 20,
\* the product is soft-deleted and a stock request was logged.
C23_Witness ==
    /\ Len(sales) = 2
    /\ sales[1].saleItems[1].unitPrice = 20
    /\ StatusName(sales[1].saleStatusId) = "completed"
    /\ products["p1"].price = 20
    /\ ~products["p1"].isActive
    /\ Len(inventoryLog) > 0

\* the step answers a customer create or update or a product update or
\* soft delete
CrudStep ==
    last'.op \in {"createCustomer", "updateCustomer", "updateProduct", "deleteProduct"}

\* C24: a customer create or update and a product update or soft delete
\* leave every existing customer on file with the totalPurchases and
\* loyaltyPoints it had.
C24_AggregatesOnlyBySales ==
    [][CrudStep
         => \A c \in DOMAIN customers :
               /\ c \in DOMAIN customers'
               /\ customers'[c].totalPurchases = customers[c].totalPurchases
               /\ customers'[c].loyaltyPoints = customers[c].loyaltyPoints]_vars

\* C24 witness: the profile of a customer who holds purchases and loyalty
\* points was updated, after another customer was created and the price of
\* a product was changed.
C24_Witness ==
    /\ last.op = "updateCustomer" /\ last.code = 200
    /\ "c1" \in DOMAIN customers
    /\ customers["c1"].country = "PK"
    /\ customers["c1"].totalPurchases > 0
    /\ customers["c1"].loyaltyPoints > 0
    /\ "c2" \in DOMAIN customers
    /\ products["p1"].price = 20

\* C25: the inventory log after any step is the log before it followed by
\* zero or more new entries; no entry on file is changed or removed.
C25_AppendOnly ==
    [][/\ Len(inventoryLog') >= Len(inventoryLog)
       /\ \A i \in 1 .. Len(inventoryLog) : inventoryLog'[i] = inventoryLog[i]]_vars

\* C25 witness: a second, different entry was appended to the log, and a
\* sale and an inventory upsert happened beside the two stock requests.
C25_Witness ==
    /\ Len(inventoryLog) = 2
    /\ inventoryLog[1] # inventoryLog[2]
    /\ Len(sales) > 0
    /\ inventory # NoRows

\* the step answers a status update of a sale id that is not on file
UnknownSaleStep ==
    /\ last'.op = "updateSaleStatus"
    /\ last'.sale \notin 1 .. Len(sales)

\* the step answers a status update of a sale on file whose requested status
\* is not a row of sale_statuses
UnknownStatusStep ==
    /\ last'.op = "updateSaleStatus"
    /\ last'.sale \in 1 .. Len(sales)
    /\ last'.to = ""

\* C26: a status update of an unknown sale id answers 404, a status update
\* to a status that is not a lookup value answers an error of the caller (a
\* 4xx code, not the 500 of a persistence failure), and in both cases no
\* sale, stock row or customer changes.
C26_ErrorOutcomes ==
    [][/\ UnknownSaleStep
            => /\ last'.code = 404
               /\ UNCHANGED <<sales, inventory, customers>>
       /\ UnknownStatusStep
            => /\ last'.code \in 400 .. 499
               /\ UNCHANGED <<sales, inventory, customers>>]_vars

\* C27: a create-sale request that answers 201 leaves every stock row at a
\* location other than the default one, and every stock row of a product
\* that is not in the sale, with the quantity it had.
C27_DefaultLocationOnly ==
    [][(CreateSaleStep /\ last'.code = 201)
         => \A key \in DOMAIN inventory :
               (\/ key[2] # DefaultLocation
                \/ key[1] \notin SaleProducts(Created.saleItems))
                 => inventory'[key] = inventory[key]]_vars

\* C28: for a sale and each product, the default-location stock is never
\* lower than before the sale by more than the quantity of the sale's
\* lines, and is lower by exactly that quantity while the sale is completed.
C28_StockEffectOnce ==
    \A i \in 1 .. Len(sales) : \A key \in DefaultKeys :
        LET q == SumQuantity(sales[i].saleItems, key[1])
            net == inventory0[key] - inventory[key]
        IN  /\ net <= q
            /\ StatusName(sales[i].saleStatusId) = "completed" => net = q

\* C29: after a create-sale request that answers 201, the quantity of each
\* product sold that the stock route reads as its old value and that the
\* low-stock listing compares with the threshold (the quantity of the
\* product row), where it covered the quantity sold, is lower by the
\* quantity sold.
C29_SameStockQuantity ==
    [][(CreateSaleStep /\ last'.code = 201)
         => \A p \in SaleProducts(Created.saleItems) :
               LET q == SumQuantity(Created.saleItems, p)
               IN  products[p].quantity >= q
                     => products'[p].quantity = products[p].quantity - q]_vars

\* the sum over the items of unitPrice * quantity plus taxAmount
RECURSIVE ItemsGross(_)
ItemsGross(saleItems) ==
    IF saleItems = <<>> THEN 0
    ELSE Head(saleItems).unitPrice * Head(saleItems).quantity
         + Head(saleItems).taxAmount + ItemsGross(Tail(saleItems))

\* C30: for every sale on file, totalAmount plus discountAmount of the
\* header is the sum over its items of unitPrice * quantity plus the sum of
\* the items' taxAmount.
C30_HeaderMatchesItems ==
    \A i \in 1 .. Len(sales) :
        sales[i].totalAmount + sales[i].discountAmount = ItemsGross(sales[i].saleItems)
====
